---- MODULE Spec2Model ----
(***************************************************************************)
(* Model of src/file_hash.c: the incremental SHA-256 engines (the bundled  *)
(* pure-C engine and the ARMv8 crypto engine), the compression function    *)
(* of the bundled engine, and the exported sha256_file_native.             *)
(*                                                                         *)
(* Three specifications share the module:                                  *)
(*   Spec      the digest-context API of both engines (init, update with   *)
(*             arbitrary chunk lengths, final), with the compression       *)
(*             function abstracted to "append the block to the chain";     *)
(*   FileSpec  the control flow of sha256_file_native in every build;      *)
(*   CoreSpec  the bundled build of sha256_file_native on short files with *)
(*             the compression function computed round by round on 32-bit  *)
(*             words.                                                      *)
(***************************************************************************)
EXTENDS Integers, Sequences, FiniteSets, TLC

\* ------------------------------------------------------------------------
\* State.  Each specification moves its own variables; the others rest.
\* ------------------------------------------------------------------------

\* Spec: a caller of the digest-context API
VARIABLES
    engine,    \* "bundled" | "arm": the engine the build selected
    ub,        \* the build's outcome for accesses past the end of pad[]
    pc,        \* where the caller is: "ready" (may call update or final),
               \* "b_zeros" / "a_update" (inside final), "done", "aborted"
    ctx,       \* the digest context
    chunks,    \* ghost: the lengths of the update calls the caller has made
    absorbed,  \* ghost: every byte passed to update so far, in order
    fin,       \* the locals of final, and ghosts taken when it was entered
    hash       \* uint8_t hash[32], once final has returned

engineVars == <<engine, ub, pc, ctx, chunks, absorbed, fin, hash>>

\* FileSpec: one call of sha256_file_native
VARIABLES
    build,     \* which engine the preprocessor selected
    fub,       \* the build's outcome for accesses past the end of pad[]
    openable,  \* environment: whether fopen(filepath, "rb") succeeds
    size,      \* environment: the size of the file in bytes
    fpc,       \* the statement the call is at; "returned"; "killed"
    res,       \* per resource, how often it was acquired and released
    pos,       \* the file position: bytes read so far
    ferr,      \* the stream's error indicator: some fread failed
    hashed,    \* bytes the digest engine has absorbed
    nupdate,   \* update calls made
    nfinal,    \* final calls made
    hashv,     \* uint8_t hash[32]: Indeterminate, Garbled, or n for the
               \* SHA-256 of the first n bytes of the file
    result,    \* the value returned
    out,       \* the messages printed on stdout
    cause,     \* ghost: the failures that occurred during the call
    wild       \* ghost: a store was made through a null hexString

fileVars == <<build, fub, openable, size, fpc, res, pos, ferr, hashed,
              nupdate, nfinal, hashv, result, out, cause, wild>>

\* CoreSpec: one call of sha256_file_native in the bundled build, with the
\* arithmetic of the compression function
VARIABLES
    msg,        \* environment: the bytes of the file
    cpc,        \* the step the call is at
    cblocks,    \* the blocks the engine passes to sha256_transform_bundled
    bi,         \* which of them is being compressed
    cstate,     \* uint32_t state[8] of the context
    m,          \* uint32_t m[64] of the transform, as far as computed
    wv,         \* the working variables a, b, c, d, e, f, g, h
    ci,         \* the loop counter i of the transform
    chash,      \* uint8_t hash[32]
    hexString   \* the string returned, one character per element

coreVars == <<msg, cpc, cblocks, bi, cstate, m, wv, ci, chash, hexString>>

vars == <<engineVars, fileVars, coreVars>>

\* ------------------------------------------------------------------------
\* Program constants
\* ------------------------------------------------------------------------

\* #define SHA256_BLOCK_SIZE 64 ; also the literal 64 of the ARM engine
SHA256_BLOCK_SIZE == 64

\* uint8_t pad[64] in sha256_arm_final
PAD_SIZE == 64

\* ------------------------------------------------------------------------
\* Bounds of the model
\* ------------------------------------------------------------------------

\* most update calls the caller makes before final
MaxUpdates == 3

\* most input bytes absorbed before final
MaxTotal == 192

\* the chunk lengths the caller passes to update
ChunkLens == {0, 1, 55, 56, 63, 64, 65, 128}

\* ------------------------------------------------------------------------
\* Bytes
\* ------------------------------------------------------------------------

\* the input stream: the byte at offset p.  Values differ within any window
\* of 127 offsets and never equal a padding byte (0x80, 0x00), so a byte that
\* is lost, repeated, stale or out of order shows in the compressed blocks.
InputByte(p) == 1 + (p % 127)

\* bytes p .. p+n-1 of the input stream
InputBytes(p, n) == [k \in 1..n |-> InputByte(p + k - 1)]

\* an indeterminate byte: storage that was never written
Uninit == 0 - 1

\* what a load from past the end of pad[] yields when the stores into that
\* storage did not land there
StrayByte == 0 - 2

\* x >> k for the values of the model (all below 2^31)
Shr(x, k) == IF k >= 31 THEN 0 ELSE x \div (2 ^ k)

Max(a, b) == IF a >= b THEN a ELSE b

\* ------------------------------------------------------------------------
\* The digest context (SHA256_CTX_BUNDLED, SHA256_ARM_CTX)
\*   state     the chaining value, abstracted to the sequence of 64-byte
\*             blocks compressed into the initial vector so far
\*   bitcount  uint64_t bitcount
\*   buffer    uint8_t buffer[64], indices 0..63
\*   buflen    size_t buflen (ARM engine only; 0 and unused in the bundled)
\*   hiw       ghost: the highest index of buffer[] any memcpy has written
\* ------------------------------------------------------------------------

BufIdx == 0..(SHA256_BLOCK_SIZE - 1)

\* memcpy(&buffer[index], &data[off], n): data is a sequence (1-based), off a
\* 0-based offset into it.  The ghost hiw records the last index written.
Memcpy(c, index, data, off, n) ==
    [c EXCEPT !.buffer = [j \in BufIdx |->
                            IF j >= index /\ j < index + n
                            THEN data[off + (j - index) + 1]
                            ELSE c.buffer[j]],
              !.hiw = IF n > 0 THEN Max(c.hiw, index + n - 1) ELSE c.hiw]

\* the 64 bytes at buffer[0..63] as a block
BufBlock(c) == [k \in 1..SHA256_BLOCK_SIZE |-> c.buffer[k - 1]]

\* the 64 bytes at data[i .. i+63] as a block
DataBlock(data, i) == SubSeq(data, i + 1, i + SHA256_BLOCK_SIZE)

\* the compression function, abstracted: the new chaining value is determined
\* by the old one and the block, and by nothing else
Compress(state, block) == Append(state, block)

sha256_transform_bundled(c, block) == [c EXCEPT !.state = Compress(c.state, block)]

sha256_arm_process_block(c, block) == [c EXCEPT !.state = Compress(c.state, block)]

sha256_init_bundled ==
    [state |-> << >>, bitcount |-> 0,
     buffer |-> [j \in BufIdx |-> Uninit], buflen |-> 0, hiw |-> 0 - 1]

sha256_arm_init ==
    [state |-> << >>, bitcount |-> 0,
     buffer |-> [j \in BufIdx |-> Uninit], buflen |-> 0, hiw |-> 0 - 1]

\* ------------------------------------------------------------------------
\* sha256_update_bundled
\* ------------------------------------------------------------------------

\* for (i = partLen; i + 64 <= len; i += 64) transform(ctx, &data[i]);
\* yields the context and the final i
RECURSIVE BundledBlockLoop(_, _, _)
BundledBlockLoop(c, data, i) ==
    IF i + SHA256_BLOCK_SIZE <= Len(data)
    THEN BundledBlockLoop(sha256_transform_bundled(c, DataBlock(data, i)),
                          data, i + SHA256_BLOCK_SIZE)
    ELSE [ctx |-> c, i |-> i]

\* sha256_update_bundled with the test of line 117 written len > partLen: a
\* chunk that exactly fills the buffer is copied but never compressed
sha256_update_bundled_gt(c, data) ==
    LET len     == Len(data)
        index   == (c.bitcount \div 8) % SHA256_BLOCK_SIZE
        c0      == [c EXCEPT !.bitcount = c.bitcount + len * 8]
        partLen == SHA256_BLOCK_SIZE - index
    IN  IF len > partLen
        THEN LET c1 == Memcpy(c0, index, data, 0, partLen)
                 c2 == sha256_transform_bundled(c1, BufBlock(c1))
                 r  == BundledBlockLoop(c2, data, partLen)
             IN  Memcpy(r.ctx, 0, data, r.i, len - r.i)
        ELSE Memcpy(c0, index, data, 0, len)

sha256_update_bundled(c, data) ==
    LET len     == Len(data)
        index   == (c.bitcount \div 8) % SHA256_BLOCK_SIZE
        c0      == [c EXCEPT !.bitcount = c.bitcount + len * 8]
        partLen == SHA256_BLOCK_SIZE - index
    IN  IF len >= partLen
        THEN LET c1 == Memcpy(c0, index, data, 0, partLen)
                 c2 == sha256_transform_bundled(c1, BufBlock(c1))
                 r  == BundledBlockLoop(c2, data, partLen)
             IN  Memcpy(r.ctx, 0, data, r.i, len - r.i)
        ELSE Memcpy(c0, index, data, 0, len)

\* ------------------------------------------------------------------------
\* sha256_arm_update
\* ------------------------------------------------------------------------

\* while (len >= 64) { process_block(state, data); data += 64; len -= 64; }
\* off is the offset data has advanced to; yields the context and the offset
RECURSIVE ArmBlockLoop(_, _, _)
ArmBlockLoop(c, data, off) ==
    IF Len(data) - off >= 64
    THEN ArmBlockLoop(sha256_arm_process_block(c, DataBlock(data, off)),
                      data, off + 64)
    ELSE [ctx |-> c, off |-> off]

\* the part of sha256_arm_update after the top-up of a non-empty buffer
ArmUpdateRest(c, data, off) ==
    LET r   == ArmBlockLoop(c, data, off)
        len == Len(data) - r.off
    IN  IF len > 0
        THEN [Memcpy(r.ctx, 0, data, r.off, len) EXCEPT !.buflen = len]
        ELSE r.ctx

\* sha256_arm_update with the test of line 350 written len <= need: a chunk
\* that exactly fills the buffer leaves 64 bytes pending
sha256_arm_update_le(c, data) ==
    LET len == Len(data)
        c0  == [c EXCEPT !.bitcount = c.bitcount + len * 8]
    IN  IF c0.buflen > 0
        THEN LET need == 64 - c0.buflen
             IN  IF len <= need
                 THEN [Memcpy(c0, c0.buflen, data, 0, len)
                          EXCEPT !.buflen = c0.buflen + len]
                 ELSE LET c1 == Memcpy(c0, c0.buflen, data, 0, need)
                          c2 == sha256_arm_process_block(c1, BufBlock(c1))
                      IN  ArmUpdateRest([c2 EXCEPT !.buflen = 0], data, need)
        ELSE ArmUpdateRest(c0, data, 0)

sha256_arm_update(c, data) ==
    LET len == Len(data)
        c0  == [c EXCEPT !.bitcount = c.bitcount + len * 8]
    IN  IF c0.buflen > 0
        THEN LET need == 64 - c0.buflen
             IN  IF len < need
                 THEN [Memcpy(c0, c0.buflen, data, 0, len)
                          EXCEPT !.buflen = c0.buflen + len]
                 ELSE LET c1 == Memcpy(c0, c0.buflen, data, 0, need)
                          c2 == sha256_arm_process_block(c1, BufBlock(c1))
                      IN  ArmUpdateRest([c2 EXCEPT !.buflen = 0], data, need)
        ELSE ArmUpdateRest(c0, data, 0)

\* ------------------------------------------------------------------------
\* Output of the digest: the eight state words serialised big-endian.  With
\* the chaining value abstracted, the digest is the chain it stands for.
\* ------------------------------------------------------------------------

OutputHash(c) == c.state

\* ------------------------------------------------------------------------
\* sha256_final_bundled
\* ------------------------------------------------------------------------

\* finalcount[i] = (uint8_t)(ctx->bitcount >> (56 - i * 8)), i = 0..7
BundledFinalCount(c) == [k \in 1..8 |-> Shr(c.bitcount, 56 - (k - 1) * 8) % 256]

\* while ((ctx->bitcount / 8) % 64 != 56) { pad = 0x00; update(ctx, &pad, 1); }
BundledMoreZeros(c) == (c.bitcount \div 8) % 64 # 56

RECURSIVE BundledZeroLoop(_)
BundledZeroLoop(c) ==
    IF BundledMoreZeros(c)
    THEN BundledZeroLoop(sha256_update_bundled(c, <<0>>))
    ELSE c

\* the whole of sha256_final_bundled: the context afterwards and hash[32]
sha256_final_bundled(c) ==
    LET finalcount == BundledFinalCount(c)
        c1 == sha256_update_bundled(c, <<128>>)
        c2 == BundledZeroLoop(c1)
        c3 == sha256_update_bundled(c2, finalcount)
    IN  [ctx |-> c3, hash |-> OutputHash(c3), returned |-> TRUE]

\* ------------------------------------------------------------------------
\* sha256_arm_final
\*   pad     uint8_t pad[64], indices 0..63, indeterminate until written
\*   padlen  size_t padlen
\*   over    the stores the code makes at pad[64], pad[65], ...: index -> byte.
\*           pad[] has no such elements; where these stores go, and what a
\*           later load from there yields, is undefined behaviour.
\* ------------------------------------------------------------------------

PadIdx == 0..(PAD_SIZE - 1)

\* padlen = (ctx->buflen < 56) ? (56 - ctx->buflen) : (120 - ctx->buflen)
ArmPadLen(c) == IF c.buflen < 56 THEN 56 - c.buflen ELSE 120 - c.buflen

\* pad[padlen + i] = (uint8_t)(ctx->bitcount >> (56 - i * 8)), i = 0..7
ArmLenByte(c, i) == Shr(c.bitcount, 56 - i * 8) % 256

\* pad[0] = 0x80; memset(&pad[1], 0, padlen - 1); the eight length bytes
ArmPadLocals(c) ==
    LET padlen == ArmPadLen(c)
    IN  [padlen |-> padlen,
         pad    |-> [j \in PadIdx |->
                       IF j = 0 THEN 128
                       ELSE IF j >= padlen /\ j < padlen + 8
                            THEN ArmLenByte(c, j - padlen)
                       ELSE IF j < padlen THEN 0
                       ELSE Uninit],
         over   |-> [j \in {x \in padlen..(padlen + 7) : x >= PAD_SIZE} |->
                       ArmLenByte(c, j - padlen)]]

\* The outcomes of the build for the accesses past the end of pad[]:
\*   "asif"    the stores land in unused stack and are read back intact;
\*   "garbage" the stores are lost (elided, or land on another object) and
\*             the loads yield other bytes;
\*   "trap"    the stores overwrite the stack guard and the process is
\*             aborted when the function returns.
UBOutcomes == {"asif", "garbage", "trap"}

\* the padlen + 8 bytes that update(ctx, pad, padlen + 8) reads from pad
ArmPadData(l, u) ==
    [k \in 1..(l.padlen + 8) |->
        IF k - 1 < PAD_SIZE THEN l.pad[k - 1]
        ELSE IF u = "garbage" THEN StrayByte
        ELSE l.over[k - 1]]

\* whether the call made an access outside pad[0..63]
ArmPadOverrun(l) == l.padlen + 8 > PAD_SIZE

\* the whole of sha256_arm_final in a build with outcome u
sha256_arm_final(c, u) ==
    LET l  == ArmPadLocals(c)
        c1 == sha256_arm_update(c, ArmPadData(l, u))
        ok == ~(ArmPadOverrun(l) /\ u = "trap")
    IN  [ctx |-> c1, hash |-> IF ok THEN OutputHash(c1) ELSE << >>,
         returned |-> ok]

\* ========================================================================
\* Spec: a caller of the digest-context API.  It initialises a context of
\* one engine, calls update with chunks of the input stream, then final.
\* final is followed call by call: each update it issues is one step.
\* ========================================================================


Engines == {"bundled", "arm"}

NoFin == [n |-> 0, calls |-> 0, finalcount |-> << >>,
          padlen |-> 0, pad |-> << >>, over |-> << >>]

EngineInit(e) == IF e = "bundled" THEN sha256_init_bundled ELSE sha256_arm_init

EngineUpdate(e, c, data) ==
    IF e = "bundled" THEN sha256_update_bundled(c, data)
    ELSE sha256_arm_update(c, data)

\* the pending-byte count of a context: the bundled engine derives it from
\* bitcount on entry to update, the ARM engine keeps it in buflen
Pending(e, c) ==
    IF e = "bundled" THEN (c.bitcount \div 8) % SHA256_BLOCK_SIZE ELSE c.buflen

\* update(ctx, data, len) with the next len bytes of the input stream
Update(len) ==
    /\ pc = "ready"
    /\ Len(chunks) < MaxUpdates
    /\ Len(absorbed) + len <= MaxTotal
    /\ LET data == InputBytes(Len(absorbed), len)
       IN  /\ ctx' = EngineUpdate(engine, ctx, data)
           /\ absorbed' = absorbed \o data
    /\ chunks' = Append(chunks, len)
    /\ UNCHANGED <<engine, ub, pc, fin, hash>>
    /\ UNCHANGED <<fileVars, coreVars>>

\* sha256_final_bundled: finalcount is taken, then update(ctx, &0x80, 1)
BundledFinalPad ==
    /\ pc = "ready"
    /\ engine = "bundled"
    /\ fin' = [NoFin EXCEPT !.n = Len(absorbed), !.calls = Len(ctx.state),
                            !.finalcount = BundledFinalCount(ctx)]
    /\ ctx' = sha256_update_bundled(ctx, <<128>>)
    /\ absorbed' = Append(absorbed, 128)
    /\ pc' = "b_zeros"
    /\ UNCHANGED <<engine, ub, chunks, hash>>
    /\ UNCHANGED <<fileVars, coreVars>>

\* sha256_final_bundled: one turn of the loop of zero bytes
BundledFinalZero ==
    /\ pc = "b_zeros"
    /\ BundledMoreZeros(ctx)
    /\ ctx' = sha256_update_bundled(ctx, <<0>>)
    /\ absorbed' = Append(absorbed, 0)
    /\ UNCHANGED <<engine, ub, pc, chunks, fin, hash>>
    /\ UNCHANGED <<fileVars, coreVars>>

\* sha256_final_bundled: update(ctx, finalcount, 8) and the output of hash
BundledFinalLen ==
    /\ pc = "b_zeros"
    /\ ~BundledMoreZeros(ctx)
    /\ ctx' = sha256_update_bundled(ctx, fin.finalcount)
    /\ absorbed' = absorbed \o fin.finalcount
    /\ hash' = OutputHash(ctx')
    /\ pc' = "done"
    /\ UNCHANGED <<engine, ub, chunks, fin>>
    /\ UNCHANGED <<fileVars, coreVars>>

\* sha256_arm_final: pad[] and padlen are filled in
ArmFinalPad ==
    /\ pc = "ready"
    /\ engine = "arm"
    /\ LET l == ArmPadLocals(ctx)
       IN  fin' = [NoFin EXCEPT !.n = Len(absorbed), !.calls = Len(ctx.state),
                                !.padlen = l.padlen, !.pad = l.pad,
                                !.over = l.over]
    /\ pc' = "a_update"
    /\ UNCHANGED <<engine, ub, ctx, chunks, absorbed, hash>>
    /\ UNCHANGED <<fileVars, coreVars>>

\* sha256_arm_final: update(ctx, pad, padlen + 8), the output of hash, and
\* the return
ArmFinalUpdate ==
    /\ pc = "a_update"
    /\ LET data == ArmPadData(fin, ub)
       IN  /\ ctx' = sha256_arm_update(ctx, data)
           /\ absorbed' = absorbed \o data
    /\ IF ArmPadOverrun(fin) /\ ub = "trap"
       THEN pc' = "aborted" /\ hash' = hash
       ELSE pc' = "done" /\ hash' = OutputHash(ctx')
    /\ UNCHANGED <<engine, ub, chunks, fin>>
    /\ UNCHANGED <<fileVars, coreVars>>

\* ------------------------------------------------------------------------
\* What the claims about the engines speak of
\* ------------------------------------------------------------------------

\* the pending bytes of a context: buffer[0 .. pending-1]
PendingBytes(e, c) == [k \in 1..Pending(e, c) |-> c.buffer[k - 1]]

\* what a context holds that later calls can depend on
Observable(e, c) ==
    [state |-> c.state, bitcount |-> c.bitcount, pending |-> PendingBytes(e, c)]

\* the number of input bytes the caller has passed (the padding excluded)
InputLen == IF pc = "ready" THEN Len(absorbed) ELSE fin.n

\* a fresh context of engine e after the single call update(input[0..n-1])
OneShot(e, n) == EngineUpdate(e, EngineInit(e), InputBytes(0, n))

\* context c of engine e after update calls of lengths cs, the first of them
\* starting at input offset off
RECURSIVE RunUpdates(_, _, _, _)
RunUpdates(e, c, cs, off) ==
    IF cs = << >> THEN c
    ELSE RunUpdates(e, EngineUpdate(e, c, InputBytes(off, Head(cs))),
                    Tail(cs), off + Head(cs))

\* final of engine e on context c in a build with outcome u
EngineFinal(e, c, u) ==
    IF e = "bundled" THEN sha256_final_bundled(c) ELSE sha256_arm_final(c, u)

FinalOver == pc \in {"done", "aborted"}

\* C1: chunking invariance.  Whatever update calls the caller has made, the
\* context holds the same chain of compressed blocks, bit count and pending
\* bytes as a fresh context after one update call with the concatenated input,
\* and final yields the same digest as final after that one call.
C1_ChunkingInvariance ==
    LET one == OneShot(engine, InputLen)
    IN  /\ pc = "ready" => Observable(engine, ctx) = Observable(engine, one)
        /\ FinalOver =>
              LET f == EngineFinal(engine, one, ub)
              IN  /\ (pc = "done") = f.returned
                  /\ hash = f.hash
                  /\ ctx.state = f.ctx.state

\* C1 witness: three chunks of lengths 1, 63 and 65 were absorbed and final
\* has returned the digest
C1_Witness == pc = "done" /\ chunks = <<1, 63, 65>> /\ hash # << >>

\* the padding of an n-byte message: 0x80, the least number of zero bytes
\* that brings the length to 56 mod 64, the bit count 8n as 8 bytes big-endian
PaddingZeros(n) == (55 - (n % 64)) % 64

BigEndian64(x) == [k \in 1..8 |-> Shr(x, 8 * (8 - k)) % 256]

Padding(n) ==
    <<128>> \o [k \in 1..PaddingZeros(n) |-> 0] \o BigEndian64(8 * n)

\* C7: when final is over it has returned, the bytes it passed to update are
\* exactly Padding(n) for the n input bytes absorbed before, the padded
\* length is a multiple of 64, no byte is pending, and final made one call
\* of the compression function if n mod 64 < 56 and two otherwise.
C7_FinalPadding ==
    FinalOver =>
        /\ pc = "done"
        /\ absorbed = InputBytes(0, fin.n) \o Padding(fin.n)
        /\ Len(absorbed) % 64 = 0
        /\ Pending(engine, ctx) = 0
        /\ Len(ctx.state) - fin.calls = (IF fin.n % 64 < 56 THEN 1 ELSE 2)

\* C8: whenever an update has returned (those final issues included), fewer
\* than 64 bytes are pending, their number is the total absorbed mod 64, the
\* buffer holds the last that-many bytes absorbed, the compression function
\* has been called total div 64 times, and no write into buffer[] went past
\* index 63.
C8_UpdatePostcondition ==
    LET total == Len(absorbed)
        p     == Pending(engine, ctx)
    IN  /\ p < 64
        /\ p = total % 64
        /\ PendingBytes(engine, ctx) = SubSeq(absorbed, total - p + 1, total)
        /\ Len(ctx.state) = total \div 64
        /\ ctx.hiw <= 63

\* C8 witness: inside final of the bundled engine, after an update call of
\* final that completed a block, with input that was passed in chunks of 65
\* and 55 bytes
C8_Witness ==
    /\ pc = "b_zeros"
    /\ chunks = <<65, 55>>
    /\ Len(ctx.state) = fin.calls + 1
    /\ Pending(engine, ctx) > 0

OtherEngine(e) == IF e = "bundled" THEN "arm" ELSE "bundled"

\* C9: the two engines agree.  After the same update calls the other engine
\* holds the same chain of compressed blocks, bit count and pending bytes,
\* and when final is over it has returned the digest the other engine
\* returns, in every build of the other engine.
C9_EnginesEquivalent ==
    LET o     == OtherEngine(engine)
        other == RunUpdates(o, EngineInit(o), chunks, 0)
    IN  /\ pc = "ready" => Observable(engine, ctx) = Observable(o, other)
        /\ FinalOver =>
              /\ pc = "done"
              /\ \A u \in (IF o = "arm" THEN UBOutcomes ELSE {"asif"}) :
                    LET f == EngineFinal(o, other, u)
                    IN  f.returned /\ hash = f.hash

\* C10: in sha256_arm_final every index of pad[] written or read is in
\* 0..63: padlen + 8 <= 64, and no store goes past the end of pad[].
C10_PadInBounds ==
    pc = "a_update" => fin.padlen + 8 <= PAD_SIZE /\ DOMAIN fin.over = {}

\* ========================================================================
\* FileSpec: sha256_file_native(filepath), in each of the five builds the
\* platform selection (lines 9-36) can produce.  The digest is abstracted
\* to "the SHA-256 of the first n bytes of the file".
\* ========================================================================

\* const size_t BUFFER_SIZE = 64 * 1024
BUFFER_SIZE == 65536

\* most full chunks in a file of the model
MaxFullChunks == 2

\* the lengths of the last, partial chunk of a file of the model
TailLens == {0, 3, 60}

FileSizes == {k * BUFFER_SIZE + t : k \in 0..MaxFullChunks, t \in TailLens}

Builds == {"apple", "windows", "arm", "bundled", "openssl"}

\* what the call acquires: FILE *file, uint8_t *buffer, EVP_MD_CTX *ctx,
\* BCRYPT_ALG_HANDLE hAlg, BCRYPT_HASH_HANDLE hHash
Resources == {"file", "buffer", "md_ctx", "hAlg", "hHash"}


Indeterminate == 0 - 1
Garbled == 0 - 2

NoResult == [kind |-> "none", of |-> 0]

\* return NULL
NullResult == [kind |-> "null", of |-> 0]

\* the 64 hex digits of hash[32], as written by the sprintf loop
HexResult(h) == [kind |-> "hex", of |-> h]

Acquire(r, x) == [r EXCEPT ![x].acq = @ + 1]
Release(r, x) == [r EXCEPT ![x].rel = @ + 1]
Held(r, x) == r[x].acq > r[x].rel

\* line 415: fclose(file) when malloc of the chunk buffer failed
ExitBufferFail(r) == Release(r, "file")

\* lines 477-478: free(buffer); fclose(file) when EVP_MD_CTX_new failed
ExitCtxNewFail(r) == Release(Release(r, "buffer"), "file")

\* lines 483-485, 491-493, 500-502 with the fclose left out
ExitProviderFail_leak(r) == Release(Release(r, "md_ctx"), "buffer")

\* lines 483-485, 491-493, 500-502: EVP_MD_CTX_free(ctx); free(buffer);
\* fclose(file) when an EVP_Digest* call failed
ExitProviderFail(r) == Release(Release(Release(r, "md_ctx"), "buffer"), "file")

\* lines 510-511: free(buffer); fclose(file)
Cleanup(r) == Release(Release(r, "buffer"), "file")

\* BCryptDestroyHash(hHash); BCryptCloseAlgorithmProvider(hAlg, 0): each
\* releases its handle if the handle is valid and fails otherwise
WindowsClose(r) ==
    LET r1 == IF Held(r, "hHash") THEN Release(r, "hHash") ELSE r
    IN  IF Held(r1, "hAlg") THEN Release(r1, "hAlg") ELSE r1

Min(a, b) == IF a <= b THEN a ELSE b

\* fread(buffer, 1, BUFFER_SIZE, file) at position p of a file of sz bytes:
\* the bytes that are left, up to BUFFER_SIZE; or, on a read error, fewer
\* (none, or half of them) with the error indicator set
FreadResults(p, sz) ==
    LET left == Min(BUFFER_SIZE, sz - p)
    IN  {[n |-> left, err |-> FALSE]}
        \cup {[n |-> k, err |-> TRUE] : k \in {0, left \div 2}}

\* return NULL after the failures ks, the releases of that exit being done
ReturnNull(ks) ==
    /\ result' = NullResult
    /\ cause' = cause \cup ks
    /\ fpc' = "returned"

\* Fopen without the return of line 409: the failure is printed and the
\* call goes on to allocate the buffer
Fopen_noreturn ==
    /\ fpc = "fopen"
    /\ IF openable
       THEN /\ res' = Acquire(res, "file")
            /\ out' = out \cup {"Opening"}
            /\ cause' = cause
       ELSE /\ out' = out \cup {"Opening", "Failed to open"}
            /\ cause' = cause \cup {"open"}
            /\ UNCHANGED res
    /\ fpc' = "malloc"
    /\ UNCHANGED <<build, fub, openable, size, pos, ferr, hashed, nupdate,
                   nfinal, hashv, result, wild>>
    /\ UNCHANGED <<engineVars, coreVars>>

\* lines 404-410: fopen, and the exit when it fails
Fopen ==
    /\ fpc = "fopen"
    /\ IF openable
       THEN /\ res' = Acquire(res, "file")
            /\ out' = out \cup {"Opening"}
            /\ fpc' = "malloc"
            /\ UNCHANGED <<result, cause>>
       ELSE /\ out' = out \cup {"Opening", "Failed to open"}
            /\ ReturnNull({"open"})
            /\ UNCHANGED res
    /\ UNCHANGED <<build, fub, openable, size, pos, ferr, hashed, nupdate,
                   nfinal, hashv, wild>>
    /\ UNCHANGED <<engineVars, coreVars>>

\* lines 412-417: malloc of the chunk buffer, and the exit when it fails
MallocBuffer ==
    /\ fpc = "malloc"
    /\ \E ok \in BOOLEAN :
          IF ok
          THEN /\ res' = Acquire(res, "buffer")
               /\ fpc' = "init"
               /\ UNCHANGED <<result, cause>>
          ELSE /\ res' = ExitBufferFail(res)
               /\ ReturnNull({"alloc"})
    /\ UNCHANGED <<build, fub, openable, size, pos, ferr, hashed, nupdate,
                   nfinal, hashv, out, wild>>
    /\ UNCHANGED <<engineVars, coreVars>>

\* lines 425-426, 453-454, 464-465: a context on the stack is initialised
InitLocal ==
    /\ fpc = "init"
    /\ build \in {"apple", "arm", "bundled"}
    /\ fpc' = "read"
    /\ UNCHANGED <<build, fub, openable, size, res, pos, ferr, hashed,
                   nupdate, nfinal, hashv, result, out, cause, wild>>
    /\ UNCHANGED <<engineVars, coreVars>>

\* lines 436-440: BCryptOpenAlgorithmProvider and BCryptCreateHash; neither
\* status is tested, a failed call leaves its handle NULL
InitWindows ==
    /\ fpc = "init"
    /\ build = "windows"
    /\ \E algOk \in BOOLEAN, hashOk \in BOOLEAN :
          /\ res' = LET r1 == IF algOk THEN Acquire(res, "hAlg") ELSE res
                    IN  IF algOk /\ hashOk THEN Acquire(r1, "hHash") ELSE r1
          /\ cause' = IF algOk /\ hashOk THEN cause
                      ELSE cause \cup {"provider"}
    /\ fpc' = "read"
    /\ UNCHANGED <<build, fub, openable, size, pos, ferr, hashed, nupdate,
                   nfinal, hashv, result, out, wild>>
    /\ UNCHANGED <<engineVars, coreVars>>

\* lines 475-487: EVP_MD_CTX_new and EVP_DigestInit_ex, and their exits
InitOpenssl ==
    /\ fpc = "init"
    /\ build = "openssl"
    /\ \E o \in {"ok", "new_fails", "init_fails"} :
          CASE o = "ok" ->
                  /\ res' = Acquire(res, "md_ctx")
                  /\ fpc' = "read"
                  /\ UNCHANGED <<result, cause>>
            [] o = "new_fails" ->
                  /\ res' = ExitCtxNewFail(res)
                  /\ ReturnNull({"alloc"})
            [] o = "init_fails" ->
                  /\ res' = ExitProviderFail(Acquire(res, "md_ctx"))
                  /\ ReturnNull({"provider"})
    /\ UNCHANGED <<build, fub, openable, size, pos, ferr, hashed, nupdate,
                   nfinal, hashv, out, wild>>
    /\ UNCHANGED <<engineVars, coreVars>>

\* one turn of while ((bytesRead = fread(...)) > 0) update(...): lines
\* 428-430, 442-444, 456-458, 467-469, 489-496.  Only the OpenSSL build
\* tests the status of its update; BCryptHashData fails on a NULL hHash and
\* absorbs nothing.
ReadChunk ==
    /\ fpc = "read"
    /\ \E r \in FreadResults(pos, size),
          updOk \in (IF build = "openssl" THEN BOOLEAN ELSE {TRUE}) :
          LET rc == IF r.err THEN {"read"} ELSE {}
          IN  /\ pos' = pos + r.n
              /\ ferr' = (ferr \/ r.err)
              /\ IF r.n = 0
                 THEN /\ updOk
                      /\ fpc' = "final"
                      /\ cause' = cause \cup rc
                      /\ UNCHANGED <<res, hashed, nupdate, result>>
                 ELSE IF updOk
                 THEN /\ nupdate' = nupdate + 1
                      /\ hashed' = IF build = "windows" /\ ~Held(res, "hHash")
                                   THEN hashed ELSE hashed + r.n
                      /\ cause' = cause \cup rc
                      /\ UNCHANGED <<res, fpc, result>>
                 ELSE /\ nupdate' = nupdate + 1
                      /\ res' = ExitProviderFail(res)
                      /\ ReturnNull(rc \cup {"provider"})
                      /\ UNCHANGED hashed
    /\ UNCHANGED <<build, fub, openable, size, nfinal, hashv, out, wild>>
    /\ UNCHANGED <<engineVars, coreVars>>

\* lines 431, 470: CC_SHA256_Final, sha256_final_bundled
FinalLocal ==
    /\ fpc = "final"
    /\ build \in {"apple", "bundled"}
    /\ nfinal' = nfinal + 1
    /\ hashv' = hashed
    /\ fpc' = "cleanup"
    /\ UNCHANGED <<build, fub, openable, size, res, pos, ferr, hashed,
                   nupdate, result, out, cause, wild>>
    /\ UNCHANGED <<engineVars, coreVars>>

\* line 459: sha256_arm_final, entered with buflen = hashed mod 64
FinalArm ==
    /\ fpc = "final"
    /\ build = "arm"
    /\ nfinal' = nfinal + 1
    /\ LET overrun == ArmPadOverrun([padlen |-> ArmPadLen([buflen |-> hashed % 64])])
       IN  IF overrun /\ fub = "trap"
           THEN fpc' = "killed" /\ UNCHANGED hashv
           ELSE /\ fpc' = "cleanup"
                /\ hashv' = IF overrun /\ fub = "garbage" THEN Garbled
                            ELSE hashed
    /\ UNCHANGED <<build, fub, openable, size, res, pos, ferr, hashed,
                   nupdate, result, out, cause, wild>>
    /\ UNCHANGED <<engineVars, coreVars>>

\* lines 445-448: BCryptFinishHash (status not tested), BCryptDestroyHash,
\* BCryptCloseAlgorithmProvider
FinalWindows ==
    /\ fpc = "final"
    /\ build = "windows"
    /\ nfinal' = nfinal + 1
    /\ \E finOk \in BOOLEAN :
          /\ hashv' = IF Held(res, "hHash") /\ finOk THEN hashed ELSE hashv
          /\ cause' = IF Held(res, "hHash") /\ finOk THEN cause
                      ELSE cause \cup {"provider"}
    /\ res' = WindowsClose(res)
    /\ fpc' = "cleanup"
    /\ UNCHANGED <<build, fub, openable, size, pos, ferr, hashed, nupdate,
                   result, out, wild>>
    /\ UNCHANGED <<engineVars, coreVars>>

\* lines 498-506: EVP_DigestFinal_ex and its exit; EVP_MD_CTX_free
FinalOpenssl ==
    /\ fpc = "final"
    /\ build = "openssl"
    /\ nfinal' = nfinal + 1
    /\ \E ok \in BOOLEAN :
          IF ok
          THEN /\ hashv' = hashed
               /\ res' = Release(res, "md_ctx")
               /\ fpc' = "cleanup"
               /\ UNCHANGED <<result, cause>>
          ELSE /\ res' = ExitProviderFail(res)
               /\ ReturnNull({"provider"})
               /\ UNCHANGED hashv
    /\ UNCHANGED <<build, fub, openable, size, pos, ferr, hashed, nupdate,
                   out, wild>>
    /\ UNCHANGED <<engineVars, coreVars>>

\* lines 509-511
CleanupStep ==
    /\ fpc = "cleanup"
    /\ res' = Cleanup(res)
    /\ fpc' = "hex"
    /\ UNCHANGED <<build, fub, openable, size, pos, ferr, hashed, nupdate,
                   nfinal, hashv, result, out, cause, wild>>
    /\ UNCHANGED <<engineVars, coreVars>>

\* the outcomes of the stores through hexString when malloc(65) returned
\* NULL: the process faults, or the stores land and NULL is returned
NullStoreOutcomes == {"fault", "lands"}

\* lines 513-520: malloc(65), untested; the sprintf loop; return hexString
HexEncode ==
    /\ fpc = "hex"
    /\ \/ /\ result' = HexResult(hashv)
          /\ fpc' = "returned"
          /\ UNCHANGED <<cause, wild>>
       \/ \E o \in NullStoreOutcomes :
             /\ wild' = TRUE
             /\ cause' = cause \cup {"alloc"}
             /\ IF o = "fault"
                THEN fpc' = "killed" /\ UNCHANGED result
                ELSE fpc' = "returned" /\ result' = NullResult
    /\ UNCHANGED <<build, fub, openable, size, res, pos, ferr, hashed,
                   nupdate, nfinal, hashv, out>>
    /\ UNCHANGED <<engineVars, coreVars>>

\* ========================================================================
\* 32-bit words.  A uint32_t is the set of the positions of its one bits,
\* bit 0 the least significant.
\* ========================================================================

WordBits == 0..31

\* the uint32_t whose upper 16 bits are hi and whose lower 16 bits are lo
W(hi, lo) ==
    {k \in 0..15 : (lo \div (2 ^ k)) % 2 = 1}
    \cup {16 + k : k \in {j \in 0..15 : (hi \div (2 ^ j)) % 2 = 1}}

XOR(x, y) == (x \ y) \cup (y \ x)
AND(x, y) == x \cap y
NOT(x) == WordBits \ x

\* (x) >> (n)
SHR(x, n) == {k - n : k \in {j \in x : j >= n}}

\* ROTR with the bits shifted out dropped instead of wrapped round
ROTR_shift(x, n) == SHR(x, n)

\* #define ROTR(x, n) (((x) >> (n)) | ((x) << (32 - (n))))
ROTR(x, n) == {(k + 32 - n) % 32 : k \in x}

CH(x, y, z) == XOR(AND(x, y), AND(NOT(x), z))
MAJ(x, y, z) == XOR(XOR(AND(x, y), AND(x, z)), AND(y, z))
EP0(x) == XOR(XOR(ROTR(x, 2), ROTR(x, 13)), ROTR(x, 22))
EP1(x) == XOR(XOR(ROTR(x, 6), ROTR(x, 11)), ROTR(x, 25))
SIG0(x) == XOR(XOR(ROTR(x, 7), ROTR(x, 18)), SHR(x, 3))
SIG1(x) == XOR(XOR(ROTR(x, 17), ROTR(x, 19)), SHR(x, 10))

\* uint32_t addition: bit k of the sum from bit k of x, of y and the carry;
\* the carry out of bit 31 is dropped (the sum is taken modulo 2^32)
RECURSIVE AddFrom(_, _, _, _)
AddFrom(x, y, k, carry) ==
    IF k = 32 THEN {}
    ELSE LET s == (IF k \in x THEN 1 ELSE 0) + (IF k \in y THEN 1 ELSE 0) + carry
         IN  (IF s % 2 = 1 THEN {k} ELSE {}) \cup AddFrom(x, y, k + 1, s \div 2)

ADD(x, y) == AddFrom(x, y, 0, 0)

\* static const uint32_t K256[64]
K256 == <<
    W(\h428a, \h2f98), W(\h7137, \h4491), W(\hb5c0, \hfbcf), W(\he9b5, \hdba5),
    W(\h3956, \hc25b), W(\h59f1, \h11f1), W(\h923f, \h82a4), W(\hab1c, \h5ed5),
    W(\hd807, \haa98), W(\h1283, \h5b01), W(\h2431, \h85be), W(\h550c, \h7dc3),
    W(\h72be, \h5d74), W(\h80de, \hb1fe), W(\h9bdc, \h06a7), W(\hc19b, \hf174),
    W(\he49b, \h69c1), W(\hefbe, \h4786), W(\h0fc1, \h9dc6), W(\h240c, \ha1cc),
    W(\h2de9, \h2c6f), W(\h4a74, \h84aa), W(\h5cb0, \ha9dc), W(\h76f9, \h88da),
    W(\h983e, \h5152), W(\ha831, \hc66d), W(\hb003, \h27c8), W(\hbf59, \h7fc7),
    W(\hc6e0, \h0bf3), W(\hd5a7, \h9147), W(\h06ca, \h6351), W(\h1429, \h2967),
    W(\h27b7, \h0a85), W(\h2e1b, \h2138), W(\h4d2c, \h6dfc), W(\h5338, \h0d13),
    W(\h650a, \h7354), W(\h766a, \h0abb), W(\h81c2, \hc92e), W(\h9272, \h2c85),
    W(\ha2bf, \he8a1), W(\ha81a, \h664b), W(\hc24b, \h8b70), W(\hc76c, \h51a3),
    W(\hd192, \he819), W(\hd699, \h0624), W(\hf40e, \h3585), W(\h106a, \ha070),
    W(\h19a4, \hc116), W(\h1e37, \h6c08), W(\h2748, \h774c), W(\h34b0, \hbcb5),
    W(\h391c, \h0cb3), W(\h4ed8, \haa4a), W(\h5b9c, \hca4f), W(\h682e, \h6ff3),
    W(\h748f, \h82ee), W(\h78a5, \h636f), W(\h84c8, \h7814), W(\h8cc7, \h0208),
    W(\h90be, \hfffa), W(\ha450, \h6ceb), W(\hbef9, \ha3f7), W(\hc671, \h78f2)
>>

\* the initial vector sha256_init_bundled stores into ctx->state
InitialState == <<
    W(\h6a09, \he667), W(\hbb67, \hae85), W(\h3c6e, \hf372), W(\ha54f, \hf53a),
    W(\h510e, \h527f), W(\h9b05, \h688c), W(\h1f83, \hd9ab), W(\h5be0, \hcd19)
>>

\* the bits of byte b, moved up by shift
ByteBits(b, shift) == {shift + k : k \in {j \in 0..7 : (b \div (2 ^ j)) % 2 = 1}}

\* m[i] = data[4i] << 24 | data[4i+1] << 16 | data[4i+2] << 8 | data[4i+3]
\* (data a block, 1-based; i in 0..15)
LoadWord(data, i) ==
    ByteBits(data[4 * i + 1], 24) \cup ByteBits(data[4 * i + 2], 16)
    \cup ByteBits(data[4 * i + 3], 8) \cup ByteBits(data[4 * i + 4], 0)

\* m[i] = SIG1(m[i-2]) + m[i-7] + SIG0(m[i-15]) + m[i-16], for the schedule
\* m[0..i-1] held as the sequence ms
ScheduleWord(ms, i) ==
    ADD(ADD(ADD(SIG1(ms[i - 2 + 1]), ms[i - 7 + 1]), SIG0(ms[i - 15 + 1])),
        ms[i - 16 + 1])

\* one round on the working variables v = <<a, b, c, d, e, f, g, h>> with
\* round constant k and schedule word mi
Round(v, k, mi) ==
    LET a == v[1]  b == v[2]  c == v[3]  d == v[4]
        e == v[5]  f == v[6]  g == v[7]  h == v[8]
        t1 == ADD(ADD(ADD(ADD(h, EP1(e)), CH(e, f, g)), k), mi)
        t2 == ADD(EP0(a), MAJ(a, b, c))
    IN  <<ADD(t1, t2), a, b, c, ADD(d, t1), e, f, g>>

\* ctx->state[k] += a, b, ..., h
AddBack(state, v) == [k \in 1..8 |-> ADD(state[k], v[k])]

\* (w >> shift) & 0xff
WordByte(w, shift) ==
      (IF shift + 7 \in w THEN 128 ELSE 0) + (IF shift + 6 \in w THEN 64 ELSE 0)
    + (IF shift + 5 \in w THEN 32 ELSE 0) + (IF shift + 4 \in w THEN 16 ELSE 0)
    + (IF shift + 3 \in w THEN 8 ELSE 0) + (IF shift + 2 \in w THEN 4 ELSE 0)
    + (IF shift + 1 \in w THEN 2 ELSE 0) + (IF shift \in w THEN 1 ELSE 0)

\* hash[i*4 + j] = (ctx->state[i] >> (24 - 8j)) & 0xff, as a sequence of 32
StateBytes(state) ==
    [k \in 1..32 |-> WordByte(state[((k - 1) \div 4) + 1], 24 - 8 * ((k - 1) % 4))]

HexDigits == <<"0", "1", "2", "3", "4", "5", "6", "7",
               "8", "9", "a", "b", "c", "d", "e", "f">>

\* sprintf(hexString + i * 2, "%02x", hash[i]) for i = 0..31: two lowercase
\* digits per byte, the upper nibble first
HexString(bytes) ==
    [k \in 1..(2 * Len(bytes)) |->
        LET b == bytes[(k + 1) \div 2]
        IN  IF k % 2 = 1 THEN HexDigits[(b \div 16) + 1]
            ELSE HexDigits[(b % 16) + 1]]

\* ========================================================================
\* CoreSpec: sha256_file_native in the bundled build on a file shorter than
\* one chunk, with no failure.  The engine runs as in Spec and yields the
\* blocks it passes to sha256_transform_bundled; each is then compressed
\* into ctx->state step by step (sha256_transform_bundled reads nothing but
\* ctx->state and the block, so the order of the two is immaterial).
\* ========================================================================

\* the 3 bytes "abc"
MsgAbc == <<97, 98, 99>>

\* the 56 bytes "abcdbcdecdefdefgefghfghighijhijkijkljklmklmnlmnomnopnopq"
Msg56 == [k \in 1..56 |-> 97 + ((k - 1) \div 4) + ((k - 1) % 4)]

\* the contents of the files of the model
CoreFiles == {<< >>, MsgAbc, Msg56}

\* lines 464-470: init; the read loop, which passes a non-empty file to
\* update in one chunk and then reads 0 bytes; final
CoreEngine ==
    /\ cpc = "engine"
    /\ LET c0 == sha256_init_bundled
           c1 == IF Len(msg) > 0 THEN sha256_update_bundled(c0, msg) ELSE c0
       IN  cblocks' = sha256_final_bundled(c1).ctx.state
    /\ cstate' = InitialState
    /\ bi' = 1
    /\ cpc' = "load"
    /\ UNCHANGED <<msg, m, wv, ci, chash, hexString>>
    /\ UNCHANGED <<engineVars, fileVars>>

\* lines 81-84: m[0..15] are loaded from the block
CoreLoad ==
    /\ cpc = "load"
    /\ m' = [k \in 1..16 |-> LoadWord(cblocks[bi], k - 1)]
    /\ ci' = 16
    /\ cpc' = "expand"
    /\ UNCHANGED <<msg, cblocks, bi, cstate, wv, chash, hexString>>
    /\ UNCHANGED <<engineVars, fileVars>>

\* lines 85-87: one turn of the loop that extends the schedule
CoreExpand ==
    /\ cpc = "expand"
    /\ ci < 64
    /\ m' = Append(m, ScheduleWord(m, ci))
    /\ ci' = ci + 1
    /\ UNCHANGED <<msg, cpc, cblocks, bi, cstate, wv, chash, hexString>>
    /\ UNCHANGED <<engineVars, fileVars>>

\* lines 89-90: the working variables are loaded from ctx->state
CoreWorking ==
    /\ cpc = "expand"
    /\ ci = 64
    /\ wv' = cstate
    /\ ci' = 0
    /\ cpc' = "round"
    /\ UNCHANGED <<msg, cblocks, bi, cstate, m, chash, hexString>>
    /\ UNCHANGED <<engineVars, fileVars>>

\* lines 92-97: one round
CoreRound ==
    /\ cpc = "round"
    /\ ci < 64
    /\ wv' = Round(wv, K256[ci + 1], m[ci + 1])
    /\ ci' = ci + 1
    /\ UNCHANGED <<msg, cpc, cblocks, bi, cstate, m, chash, hexString>>
    /\ UNCHANGED <<engineVars, fileVars>>

\* lines 99-100: the working variables are added into ctx->state; the engine
\* goes on to its next call of the transform, or to the output of hash
CoreAddBack ==
    /\ cpc = "round"
    /\ ci = 64
    /\ cstate' = AddBack(cstate, wv)
    /\ IF bi < Len(cblocks)
       THEN bi' = bi + 1 /\ cpc' = "load"
       ELSE bi' = bi /\ cpc' = "output"
    /\ UNCHANGED <<msg, cblocks, m, wv, ci, chash, hexString>>
    /\ UNCHANGED <<engineVars, fileVars>>

\* lines 142-147: hash[32] is written from ctx->state
CoreOutput ==
    /\ cpc = "output"
    /\ chash' = StateBytes(cstate)
    /\ cpc' = "hex"
    /\ UNCHANGED <<msg, cblocks, bi, cstate, m, wv, ci, hexString>>
    /\ UNCHANGED <<engineVars, fileVars>>

\* lines 514-520: the sprintf loop, and the return
CoreHex ==
    /\ cpc = "hex"
    /\ hexString' = HexString(chash)
    /\ cpc' = "returned"
    /\ UNCHANGED <<msg, cblocks, bi, cstate, m, wv, ci, chash>>
    /\ UNCHANGED <<engineVars, fileVars>>

\* ========================================================================
\* The specifications
\* ========================================================================

Init ==
    /\ engine \in Engines
    /\ ub \in (IF engine = "arm" THEN UBOutcomes ELSE {"asif"})
    /\ pc = "ready"
    /\ ctx = EngineInit(engine)
    /\ chunks = << >>
    /\ absorbed = << >>
    /\ fin = NoFin
    /\ hash = << >>
    /\ build = "bundled" /\ fub = "asif" /\ openable = FALSE /\ size = 0
    /\ fpc = "idle" /\ res = [x \in Resources |-> [acq |-> 0, rel |-> 0]]
    /\ pos = 0 /\ ferr = FALSE /\ hashed = 0 /\ nupdate = 0 /\ nfinal = 0
    /\ hashv = Indeterminate /\ result = NoResult /\ out = {} /\ cause = {}
    /\ wild = FALSE
    /\ msg = << >> /\ cpc = "idle" /\ cblocks = << >> /\ bi = 0
    /\ cstate = << >> /\ m = << >> /\ wv = << >> /\ ci = 0
    /\ chash = << >> /\ hexString = << >>

Next ==
    \/ \E len \in ChunkLens : Update(len)
    \/ BundledFinalPad
    \/ BundledFinalZero
    \/ BundledFinalLen
    \/ ArmFinalPad
    \/ ArmFinalUpdate

Spec == Init /\ [][Next]_vars

FileInit ==
    /\ build \in Builds
    /\ fub \in (IF build = "arm" THEN UBOutcomes ELSE {"asif"})
    /\ openable \in BOOLEAN
    /\ size \in (IF openable THEN FileSizes ELSE {0})
    /\ fpc = "fopen"
    /\ res = [x \in Resources |-> [acq |-> 0, rel |-> 0]]
    /\ pos = 0
    /\ ferr = FALSE
    /\ hashed = 0
    /\ nupdate = 0
    /\ nfinal = 0
    /\ hashv = Indeterminate
    /\ result = NoResult
    /\ out = {}
    /\ cause = {}
    /\ wild = FALSE
    /\ engine = "bundled" /\ ub = "asif" /\ pc = "idle"
    /\ ctx = sha256_init_bundled /\ chunks = << >> /\ absorbed = << >>
    /\ fin = NoFin /\ hash = << >>
    /\ msg = << >> /\ cpc = "idle" /\ cblocks = << >> /\ bi = 0
    /\ cstate = << >> /\ m = << >> /\ wv = << >> /\ ci = 0
    /\ chash = << >> /\ hexString = << >>

FileNext ==
    \/ Fopen
    \/ MallocBuffer
    \/ InitLocal
    \/ InitWindows
    \/ InitOpenssl
    \/ ReadChunk
    \/ FinalLocal
    \/ FinalArm
    \/ FinalWindows
    \/ FinalOpenssl
    \/ CleanupStep
    \/ HexEncode

FileSpec == FileInit /\ [][FileNext]_vars

CoreInit ==
    /\ msg \in CoreFiles
    /\ cpc = "engine"
    /\ cblocks = << >> /\ bi = 0
    /\ cstate = << >> /\ m = << >> /\ wv = << >> /\ ci = 0
    /\ chash = << >> /\ hexString = << >>
    /\ engine = "bundled" /\ ub = "asif" /\ pc = "idle"
    /\ ctx = sha256_init_bundled /\ chunks = << >> /\ absorbed = << >>
    /\ fin = NoFin /\ hash = << >>
    /\ build = "bundled" /\ fub = "asif" /\ openable = FALSE /\ size = 0
    /\ fpc = "idle" /\ res = [x \in Resources |-> [acq |-> 0, rel |-> 0]]
    /\ pos = 0 /\ ferr = FALSE /\ hashed = 0 /\ nupdate = 0 /\ nfinal = 0
    /\ hashv = Indeterminate /\ result = NoResult /\ out = {} /\ cause = {}
    /\ wild = FALSE

CoreNext ==
    \/ CoreEngine
    \/ CoreLoad
    \/ CoreExpand
    \/ CoreWorking
    \/ CoreRound
    \/ CoreAddBack
    \/ CoreOutput
    \/ CoreHex

CoreSpec == CoreInit /\ [][CoreNext]_vars

\* ------------------------------------------------------------------------
\* Claims about the digest of known files
\* ------------------------------------------------------------------------

EmptyDigestHex == <<
    "e", "3", "b", "0", "c", "4", "4", "2", "9", "8", "f", "c", "1", "c", "1", "4",
    "9", "a", "f", "b", "f", "4", "c", "8", "9", "9", "6", "f", "b", "9", "2", "4",
    "2", "7", "a", "e", "4", "1", "e", "4", "6", "4", "9", "b", "9", "3", "4", "c",
    "a", "4", "9", "5", "9", "9", "1", "b", "7", "8", "5", "2", "b", "8", "5", "5"
>>

AbcDigestHex == <<
    "b", "a", "7", "8", "1", "6", "b", "f", "8", "f", "0", "1", "c", "f", "e", "a",
    "4", "1", "4", "1", "4", "0", "d", "e", "5", "d", "a", "e", "2", "2", "2", "3",
    "b", "0", "0", "3", "6", "1", "a", "3", "9", "6", "1", "7", "7", "a", "9", "c",
    "b", "4", "1", "0", "f", "f", "6", "1", "f", "2", "0", "0", "1", "5", "a", "d"
>>

Msg56DigestHex == <<
    "2", "4", "8", "d", "6", "a", "6", "1", "d", "2", "0", "6", "3", "8", "b", "8",
    "e", "5", "c", "0", "2", "6", "9", "3", "0", "c", "3", "e", "6", "0", "3", "9",
    "a", "3", "3", "c", "e", "4", "5", "9", "6", "4", "f", "f", "2", "1", "6", "7",
    "f", "6", "e", "c", "e", "d", "d", "4", "1", "9", "d", "b", "0", "6", "c", "1"
>>

\* C6: hashing a file of 0 bytes (init, no update, final, the hex loop)
\* returns the string e3b0c442 98fc1c14 9afbf4c8 996fb924 27ae41e4 649b934c
\* a495991b 7852b855.
C6_EmptyFileDigest ==
    (cpc = "returned" /\ msg = << >>) => hexString = EmptyDigestHex

\* C6 witness: the call on the empty file has returned, after one call of
\* the transform on the padding block
C6_Witness ==
    cpc = "returned" /\ msg = << >> /\ Len(cblocks) = 1 /\ Len(hexString) = 64

\* the digests of the two other files of the model, "abc" (one block) and
\* the 56-byte message (two blocks), are the published ones
Core_KnownAnswers ==
    cpc = "returned" =>
        /\ msg = MsgAbc => hexString = AbcDigestHex
        /\ msg = Msg56 => hexString = Msg56DigestHex

\* ------------------------------------------------------------------------
\* Claims about sha256_file_native
\* ------------------------------------------------------------------------

\* C2: if a read failed after the file was opened, the call returns NULL
\* and never a hex digest of the bytes read before the failure.
C2_ReadFailureAborts ==
    (fpc = "returned" /\ ferr) => result = NullResult

\* what the call has done when the path could not be opened: it has printed
\* the failure, returned NULL, acquired nothing and run neither update nor
\* final
OpenFailureOutcome ==
    (fpc = "returned" /\ ~openable) =>
        /\ result = NullResult
        /\ "Failed to open" \in out
        /\ \A x \in Resources : res[x].acq = 0
        /\ nupdate = 0 /\ nfinal = 0
        /\ hashv = Indeterminate

C4_ReleasedExactlyOnce ==
    \A x \in Resources :
        /\ res[x].acq <= 1
        /\ res[x].rel <= res[x].acq
        /\ fpc = "returned" => res[x].rel = res[x].acq

\* C4 witness: the call has returned NULL by an exit taken after the file,
\* the buffer and the provider context were all acquired
C4_Witness ==
    /\ fpc = "returned"
    /\ result = NullResult
    /\ \A x \in {"file", "buffer", "md_ctx"} : res[x].acq = 1

\* C5: when an allocation of the call fails, the call makes no store
\* through the pointer it did not obtain, and returns NULL.
C5_AllocationFailureHandled ==
    /\ ~wild
    /\ (fpc = "returned" /\ "alloc" \in cause) => result = NullResult
    /\ "alloc" \in cause => fpc # "killed"

====
